---- MODULE Spec2Model ----
(***************************************************************************)
(* Model of the rabbitmq-notification client library.                      *)
(*                                                                         *)
(*   Spec        the connection multiplexer of src/common.cpp: one         *)
(*               Connection, its detached dispatcher thread, the threads   *)
(*               that own Channel objects, and the thread that destroys    *)
(*               the Connection.                                           *)
(*   SpecFair    Spec with the dispatcher thread scheduled fairly.         *)
(*   SpecIds     Channel constructors and destructors running on several   *)
(*               Connections, which share the static id counter.           *)
(*   SpecRpc     MessageBroker::send, the RPC client: request, then the    *)
(*               frame-by-frame reassembly of the reply.                   *)
(*   SpecRpcFair SpecRpc with the calling thread scheduled fairly.         *)
(*   SpecListen  MessageBroker::listen, the RPC server's serve loop.       *)
(*   SpecCtor    Connection::Connection, from the configuration check to   *)
(*               the start of the dispatcher thread.                       *)
(*   SpecQueue   Channel::setup_queue: declare, the optional bind, and the *)
(*               name returned.                                            *)
(*   SpecWrap    Channel constructors and destructors on one Connection    *)
(*               that has already handed out nearly 65536 ids.             *)
(*   SpecQos     Channel::qos: the arguments of the call and the           *)
(*               parameters the library receives.                          *)
(***************************************************************************)
EXTENDS Integers, Sequences, FiniteSets, TLC

\* ------------------------------------------------------------------ bounds
NumChannels == 2        \* Channel objects created on the Connection
MaxDeliveries == 2      \* deliveries the broker hands to the dispatcher

NumConnections == 2     \* Connections whose Channels share the id counter
NumCtorThreads == 3     \* threads that each construct one Channel
MaxFrames == 4          \* frames (or errors) the connection hands to send
MaxBody == 2            \* largest body size a header frame declares
MaxFragLen == 2         \* longest body fragment
NumCorrIds == 2         \* correlation ids in use on the broker
MaxRequests == 1        \* deliveries the serve loop receives
NumSlots == 3           \* Channel objects alive at once on the long-lived Connection
MaxCreations == 4       \* Channels constructed after the first SerialModulus - 2
MaxCalls == 2           \* calls of send whose request is published
MaxPort == 2            \* port numbers a caller passes: -MaxPort..MaxPort
MaxReplyToLen == 2      \* longest reply-to property
MaxQosCalls == 2         \* calls of Channel::qos

\* ------------------------------------------------------- program constants
SerialModulus == 65536  \* serial is a uint16_t
CorrelationId == 1      \* props.correlation_id = "1"
Uint16Range == 65536    \* values of a uint16_t, the type of prefetch_count

Channels == 1..NumChannels
DeliverIds == 1..(NumChannels + 1)   \* channel ids a delivery may carry
NoChan == 0             \* the null Channel pointer
Free == <<"free">>      \* mt_lock is not held
DispThread == <<"disp">>
MainThread == <<"main">>
ChanThread(c) == <<"chan", c>>

VARIABLES
    run,        \* Connection::run, the dispatcher's loop flag
    mt_lock,    \* owner of Connection::mt_lock: Free or a thread
    pool,       \* Connection::pool: channel id -> Channel pointer
    serial,     \* the process-wide channel id counter
    session,    \* the transport session: "open", "failed" (the transport
                \* has failed for good) or "closed"
    destroyed,  \* the Connection object's storage has been released
    crashed,    \* the process has terminated abnormally
    dpc,        \* position of the dispatcher thread
    tpc,        \* position of the thread that destroys the Connection
    cpc,        \* position of each Channel's owner thread
    id,         \* Channel::id
    queue,      \* each Channel's inbound envelope queue
    envelope,   \* channel id of the delivery the dispatcher polled last
    nPolled,    \* history: the number of deliveries the dispatcher polled
    recv,       \* history: the deliveries polled for each Channel while registered
    cbLog       \* history: the deliveries each Channel's callback was given

VARIABLES
    conn_lock,  \* SpecIds: owner of each Connection's mt_lock (NoThread when free)
    kpc,        \* SpecIds: position of each constructing thread
    reg,        \* SpecIds: the value of serial a thread has loaded
    kid         \* SpecIds: the id of the Channel each thread constructed

VARIABLES
    spc,            \* SpecRpc: position of the thread inside send
    wire,           \* SpecRpc: the frame waiting to be read, NoFrame if none
    nFrames,        \* SpecRpc: frames that have arrived so far
    frame,          \* SpecRpc: send's local amqp_frame_t
    body_target,    \* SpecRpc: send's local body_target
    body_received,  \* SpecRpc: send's local body_received
    response,       \* SpecRpc: send's result, NoResponse for nullptr
    frags,          \* SpecRpc history: the body fragments received, concatenated
    hdrCorr,        \* SpecRpc history: correlation id in the header frame
    waitFailed,     \* SpecRpc history: an amqp_simple_wait_frame failed
    published       \* SpecRpc history: the correlation id of each request published

VARIABLES
    lpc,        \* SpecListen: position of the serve loop
    lreq,       \* SpecListen: the envelope being handled
    lok,        \* SpecListen: what the handler returned
    lresp,      \* SpecListen: the type tag of the serve loop's local response
    lres,       \* SpecListen: what the serve loop's last poll returned
    nRequests,  \* SpecListen: deliveries received so far
    handled,    \* SpecListen history: the requests handed to the user handler
    replies     \* SpecListen history: the replies published, each with its request

VARIABLES
    xpc,         \* SpecCtor: position of the thread inside Connection::Connection
    cfg,         \* SpecCtor: the constructor's arguments
    conn_state,  \* SpecCtor: Connection::state, the transport session
    conn_socket, \* SpecCtor: Connection::socket
    worker       \* SpecCtor: the dispatcher thread has been started

VARIABLES
    qpc,        \* SpecQueue: position of the thread inside Channel::setup_queue
    qarg,       \* SpecQueue: the arguments of the call
    qcalls,     \* SpecQueue history: the transport calls made, with their outcome
    qret        \* SpecQueue: the string setup_queue returned

VARIABLES
    wserial,    \* SpecWrap: the static id counter, serial
    walive,     \* SpecWrap: which Channel objects exist
    wid,        \* SpecWrap: Channel::id of each object (of its last constructor)
    nCreated    \* SpecWrap: constructors run since the initial state

VARIABLES
    qospc,      \* SpecQos: position of the thread that calls Channel::qos
    qosarg,     \* SpecQos: the arguments of the call of qos
    qossent,    \* SpecQos: the parameters amqp_basic_qos received
    qoscalls    \* SpecQos: calls of qos so far

muxVars == <<run, mt_lock, pool, serial, session, destroyed, crashed, dpc, tpc,
             cpc, id, queue, envelope, nPolled, recv, cbLog>>

idsVars == <<conn_lock, kpc, reg, kid>>

rpcVars == <<spc, wire, nFrames, frame, body_target, body_received, response,
             frags, hdrCorr, waitFailed, published>>

listenVars == <<lpc, lreq, lok, lresp, lres, nRequests, handled, replies>>

\* The Connection's state apart from the id counter.
muxRest == <<run, mt_lock, pool, session, destroyed, crashed, dpc, tpc,
             cpc, id, queue, envelope, nPolled, recv, cbLog>>

wrapVars == <<wserial, walive, wid, nCreated>>

queueVars == <<qpc, qarg, qcalls, qret>>

qosVars == <<qospc, qosarg, qossent, qoscalls>>

ctorVars == <<xpc, cfg, conn_state, conn_socket, worker>>

notQueue == <<muxVars, idsVars, rpcVars, listenVars, ctorVars, wrapVars, qosVars>>

notWrap == <<muxVars, idsVars, rpcVars, listenVars, ctorVars, queueVars, qosVars>>

notQos == <<muxVars, idsVars, rpcVars, listenVars, ctorVars, queueVars, wrapVars>>

notMux == <<idsVars, rpcVars, listenVars, ctorVars, queueVars, wrapVars, qosVars>>

notIds == <<muxRest, rpcVars, listenVars, ctorVars, queueVars, wrapVars, qosVars>>

notRpc == <<muxVars, idsVars, listenVars, ctorVars, queueVars, wrapVars, qosVars>>

notListen == <<muxVars, idsVars, rpcVars, ctorVars, queueVars, wrapVars, qosVars>>

notCtor == <<muxVars, idsVars, rpcVars, listenVars, queueVars, wrapVars, qosVars>>

vars == <<muxVars, idsVars, rpcVars, listenVars, ctorVars, queueVars, wrapVars, qosVars>>

\* ---------------------------------------------------------------- helpers

\* Channel pcs in which the owner thread is inside a critical section that
\* calls the transport session.
CsPcs == {"ctor", "setup_queue", "publish", "qos", "ack", "nack", "consume", "dtor",
          "cb_ack", "cb_nack", "cb_publish"}

OpNames == {"setup_queue", "publish", "qos", "ack", "nack"}

\* The operations a callback calls on the Channel it is handed, and the
\* position of the thread inside each.
CallbackOps == {"ack", "nack", "publish"}

CallbackPc == [ack |-> "cb_ack", nack |-> "cb_nack", publish |-> "cb_publish"]

Alive(c) == cpc[c] \notin {"new", "ctor", "failed", "destroyed"}

\* A Channel pointer that refers to a living Channel object.
LiveTarget(t) == IF t = NoChan THEN FALSE ELSE Alive(t)

\* pool.empty()
PoolEmpty(p) == DOMAIN p = {}

\* The Channel registered under id k, NoChan when there is none.
Registered(p, k) == IF k \in DOMAIN p THEN p[k] ELSE NoChan

\* The Channels the registry's entries point to (null entries aside).
InRegistry(p) == {p[k] : k \in DOMAIN p} \ {NoChan}

\* pool[k] = ch
PoolPut(p, k, ch) == (k :> ch) @@ p

\* The Channel pointer the dispatcher dereferences for a delivery on channel k:
\* pool[envelope.channel]; operator[] default-inserts a null pointer.
RouteTargetFirst(p, k) ==
    IF PoolEmpty(p) THEN NoChan ELSE p[CHOOSE x \in DOMAIN p : \A y \in DOMAIN p : x <= y]

RouteTarget(p, k) == Registered(p, k)

\* Channel::push_envelope / pop_envelope / empty_envelope on the inbound queue.
push_envelope(q, e) == Append(q, e)

front_envelope(q) == Head(q)

pop_envelope(q) == Tail(q)

empty_envelope(q) == q = <<>>

\* ------------------------------------------------------------------- Init
MuxInit ==
    /\ run = TRUE
    /\ mt_lock = Free
    /\ pool = <<>>
    /\ serial = 0
    /\ session = "open"
    /\ destroyed = FALSE
    /\ crashed = FALSE
    /\ dpc = "run"
    /\ tpc = "live"
    /\ cpc = [c \in Channels |-> "new"]
    /\ id = [c \in Channels |-> 0]
    /\ queue = [c \in Channels |-> <<>>]
    /\ envelope = 0
    /\ nPolled = 0
    /\ recv = [c \in Channels |-> <<>>]
    /\ cbLog = [c \in Channels |-> <<>>]

\* ------------------------------------------------------------- dispatcher

\* while (run): the flag is read without the lock; after the Connection has
\* been destroyed the read is of released storage.
DispCheckRun ==
    /\ ~crashed
    /\ dpc = "run"
    /\ \E r \in (IF destroyed THEN BOOLEAN ELSE {run}) :
          dpc' = IF r THEN "lock" ELSE "exit"
    /\ UNCHANGED <<run, mt_lock, pool, serial, session, destroyed, crashed, tpc,
                   cpc, id, queue, envelope, nPolled, recv, cbLog>>
    /\ UNCHANGED notMux

\* unique_lock lock(mt_lock)
DispLockNoMutex ==
    /\ ~crashed
    /\ dpc = "lock"
    /\ mt_lock' = DispThread
    /\ dpc' = "check"
    /\ UNCHANGED <<run, pool, serial, session, destroyed, crashed, tpc,
                   cpc, id, queue, envelope, nPolled, recv, cbLog>>
    /\ UNCHANGED notMux

DispLock ==
    /\ ~crashed
    /\ dpc = "lock"
    /\ mt_lock = Free
    /\ mt_lock' = DispThread
    /\ dpc' = "check"
    /\ UNCHANGED <<run, pool, serial, session, destroyed, crashed, tpc,
                   cpc, id, queue, envelope, nPolled, recv, cbLog>>
    /\ UNCHANGED notMux

\* if (!pool.empty()) { ... }: with an empty registry the iteration ends and
\* the scope exit releases the lock. After the Connection has been destroyed
\* the read is of released storage.
DispCheckPoolAlwaysPoll ==
    /\ ~crashed
    /\ dpc = "check"
    /\ dpc' = "io"
    /\ UNCHANGED <<run, mt_lock, pool, serial, session, destroyed, crashed, tpc,
                   cpc, id, queue, envelope, nPolled, recv, cbLog>>
    /\ UNCHANGED notMux

DispCheckPoolKeepLock ==
    /\ ~crashed
    /\ dpc = "check"
    /\ \E e \in (IF destroyed THEN BOOLEAN ELSE {PoolEmpty(pool)}) :
          dpc' = IF e THEN "run" ELSE "io"
    /\ UNCHANGED <<run, mt_lock, pool, serial, session, destroyed, crashed, tpc,
                   cpc, id, queue, envelope, nPolled, recv, cbLog>>
    /\ UNCHANGED notMux

DispCheckPool ==
    /\ ~crashed
    /\ dpc = "check"
    /\ \E e \in (IF destroyed THEN BOOLEAN ELSE {PoolEmpty(pool)}) :
          IF e THEN /\ dpc' = "run"
                    /\ mt_lock' = Free
               ELSE /\ dpc' = "io"
                    /\ UNCHANGED mt_lock
    /\ UNCHANGED <<run, pool, serial, session, destroyed, crashed, tpc,
                   cpc, id, queue, envelope, nPolled, recv, cbLog>>
    /\ UNCHANGED notMux

\* amqp_maybe_release_buffers; amqp_consume_message returns a non-normal
\* reply (the timeout ran out, a frame that is no delivery arrived, or the
\* transport had failed before): continue; the scope exit releases the lock.
DispatchNotReadyBreak ==
    /\ ~crashed
    /\ dpc = "io"
    /\ session \in {"open", "failed"}
    /\ dpc' = "exit"
    /\ mt_lock' = Free
    /\ UNCHANGED <<run, pool, serial, session, destroyed, crashed, tpc,
                   cpc, id, queue, envelope, nPolled, recv, cbLog>>
    /\ UNCHANGED notMux

DispatchNotReady ==
    /\ ~crashed
    /\ dpc = "io"
    /\ session \in {"open", "failed"}
    /\ dpc' = "run"
    /\ mt_lock' = Free
    /\ UNCHANGED <<run, pool, serial, session, destroyed, crashed, tpc,
                   cpc, id, queue, envelope, nPolled, recv, cbLog>>
    /\ UNCHANGED notMux

\* amqp_consume_message returns a library error because the transport has
\* failed for good (the socket is closed or broken): the reply is not
\* AMQP_RESPONSE_NORMAL, so the loop continues as for any other such reply.
DispatchFatal ==
    /\ ~crashed
    /\ dpc = "io"
    /\ session = "open"
    /\ session' = "failed"
    /\ dpc' = "run"
    /\ mt_lock' = Free
    /\ UNCHANGED <<run, pool, serial, destroyed, crashed, tpc,
                   cpc, id, queue, envelope, nPolled, recv, cbLog>>
    /\ UNCHANGED notMux

\* The poll is made on a session that has been closed and destroyed: the
\* library reports an error, or the use of the released state faults.
DispatchAfterClose ==
    /\ ~crashed
    /\ dpc = "io"
    /\ session = "closed"
    /\ \/ /\ dpc' = "run"
          /\ mt_lock' = Free
          /\ UNCHANGED crashed
       \/ /\ crashed' = TRUE
          /\ UNCHANGED <<dpc, mt_lock>>
    /\ UNCHANGED <<run, pool, serial, session, destroyed, tpc,
                   cpc, id, queue, envelope, nPolled, recv, cbLog>>
    /\ UNCHANGED notMux

\* amqp_consume_message returns a delivery on channel k:
\* pool[envelope.channel]->push_envelope(envelope).
DispatchRoute(k) ==
    /\ ~crashed
    /\ dpc = "io"
    /\ session = "open"
    /\ nPolled < MaxDeliveries
    /\ LET n == nPolled + 1
           r == Registered(pool, k)
           t == RouteTarget(pool, k)
       IN  /\ envelope' = k
           /\ nPolled' = n
           /\ recv' = IF LiveTarget(r) THEN [recv EXCEPT ![r] = Append(@, n)] ELSE recv
           /\ pool' = IF k \in DOMAIN pool THEN pool ELSE PoolPut(pool, k, NoChan)
           /\ \/ \* the pointer refers to a living Channel
                 /\ LiveTarget(t)
                 /\ queue' = [queue EXCEPT ![t] = push_envelope(@, n)]
                 /\ dpc' = "run"
                 /\ mt_lock' = Free
                 /\ UNCHANGED crashed
              \/ \* a null or dangling pointer is dereferenced: the write
                 \* faults ...
                 /\ ~LiveTarget(t)
                 /\ crashed' = TRUE
                 /\ UNCHANGED <<queue, dpc, mt_lock>>
              \/ \* ... or goes unnoticed, into the released object if any
                 /\ ~LiveTarget(t)
                 /\ queue' = IF t = NoChan THEN queue
                             ELSE [queue EXCEPT ![t] = push_envelope(@, n)]
                 /\ dpc' = "run"
                 /\ mt_lock' = Free
                 /\ UNCHANGED crashed
    /\ UNCHANGED <<run, serial, session, destroyed, tpc, cpc, id, cbLog>>
    /\ UNCHANGED notMux

\* ---------------------------------------------------------------- Channel

\* Channel::Channel: unique_lock lock(connection->mt_lock)
ChannelCtorLock(c) ==
    /\ ~crashed
    /\ cpc[c] = "new"
    /\ \A b \in Channels : b < c => cpc[b] # "new"
    /\ mt_lock = Free
    /\ mt_lock' = ChanThread(c)
    /\ cpc' = [cpc EXCEPT ![c] = "ctor"]
    /\ UNCHANGED <<run, pool, serial, session, destroyed, crashed, dpc, tpc,
                   id, queue, envelope, nPolled, recv, cbLog>>
    /\ UNCHANGED notMux

\* id = ++serial; amqp_channel_open; die_on_amqp_error
ChannelCtor(c) ==
    /\ ~crashed
    /\ cpc[c] = "ctor"
    /\ serial' = (serial + 1) % SerialModulus
    /\ id' = [id EXCEPT ![c] = serial']
    /\ \E ok \in BOOLEAN : cpc' = [cpc EXCEPT ![c] = IF ok THEN "idle" ELSE "failed"]
    /\ mt_lock' = Free
    /\ UNCHANGED <<run, pool, session, destroyed, crashed, dpc, tpc,
                   queue, envelope, nPolled, recv, cbLog>>
    /\ UNCHANGED notMux

\* Channel::~Channel: unique_lock lock(connection->mt_lock)
ChannelDtorLock(c) ==
    /\ ~crashed
    /\ cpc[c] = "idle"
    /\ mt_lock = Free
    /\ mt_lock' = ChanThread(c)
    /\ cpc' = [cpc EXCEPT ![c] = "dtor"]
    /\ UNCHANGED <<run, pool, serial, session, destroyed, crashed, dpc, tpc,
                   id, queue, envelope, nPolled, recv, cbLog>>
    /\ UNCHANGED notMux

\* amqp_channel_close; die_on_amqp_error throws out of the destructor, which
\* terminates the process. The registry entry of the Channel is not removed.
ChannelDtor(c) ==
    /\ ~crashed
    /\ cpc[c] = "dtor"
    /\ \/ /\ cpc' = [cpc EXCEPT ![c] = "destroyed"]
          /\ mt_lock' = Free
          /\ UNCHANGED crashed
       \/ /\ crashed' = TRUE
          /\ UNCHANGED <<cpc, mt_lock>>
    /\ UNCHANGED <<run, pool, serial, session, destroyed, dpc, tpc,
                   id, queue, envelope, nPolled, recv, cbLog>>
    /\ UNCHANGED notMux

\* setup_queue / publish / qos / ack / nack: unique_lock lock(connection->mt_lock)
ChannelOpLock(c, op) ==
    /\ ~crashed
    /\ cpc[c] = "idle"
    /\ mt_lock = Free
    /\ mt_lock' = ChanThread(c)
    /\ cpc' = [cpc EXCEPT ![c] = op]
    /\ UNCHANGED <<run, pool, serial, session, destroyed, crashed, dpc, tpc,
                   id, queue, envelope, nPolled, recv, cbLog>>
    /\ UNCHANGED notMux

\* The owner of mt_lock after die_on_error / die_on_amqp_error has thrown
\* std::runtime_error (a negative status, a reply that is not
\* AMQP_RESPONSE_NORMAL): the exception unwinds the operation, whose
\* unique_lock releases the lock.
LockAfterThrowHeld(c) == ChanThread(c)

LockAfterThrow(c) == Free

\* The transport call of the operation, which returns, or throws to the
\* caller; either way the scope exit releases the lock.
ChannelOpBody(c, op) ==
    /\ ~crashed
    /\ cpc[c] = op
    /\ \/ /\ cpc' = [cpc EXCEPT ![c] = "idle"]
          /\ mt_lock' = Free
       \/ /\ cpc' = [cpc EXCEPT ![c] = "thrown"]
          /\ mt_lock' = LockAfterThrow(c)
    /\ UNCHANGED <<run, pool, serial, session, destroyed, crashed, dpc, tpc,
                   id, queue, envelope, nPolled, recv, cbLog>>
    /\ UNCHANGED notMux

\* The caller has caught the exception of a failed operation and goes on.
ChannelOpCaught(c) ==
    /\ ~crashed
    /\ cpc[c] = "thrown"
    /\ cpc' = [cpc EXCEPT ![c] = "idle"]
    /\ UNCHANGED <<run, mt_lock, pool, serial, session, destroyed, crashed, dpc,
                   tpc, id, queue, envelope, nPolled, recv, cbLog>>
    /\ UNCHANGED notMux

setup_queue(c) == ChannelOpBody(c, "setup_queue")

publish(c) == ChannelOpBody(c, "publish")

qos(c) == ChannelOpBody(c, "qos")

ack(c) == ChannelOpBody(c, "ack")

nack(c) == ChannelOpBody(c, "nack")

\* Channel::consume: unique_lock lock(connection->mt_lock)
ConsumeLock(c) ==
    /\ ~crashed
    /\ cpc[c] = "idle"
    /\ mt_lock = Free
    /\ mt_lock' = ChanThread(c)
    /\ cpc' = [cpc EXCEPT ![c] = "consume"]
    /\ UNCHANGED <<run, pool, serial, session, destroyed, crashed, dpc, tpc,
                   id, queue, envelope, nPolled, recv, cbLog>>
    /\ UNCHANGED notMux

\* amqp_basic_consume; die_on_amqp_error; connection->pool[id] = this; the
\* closing brace of the block releases the lock before the loop.
ConsumeRegisterKeepLock(c) ==
    /\ ~crashed
    /\ cpc[c] = "consume"
    /\ \/ /\ pool' = PoolPut(pool, id[c], c)
          /\ cpc' = [cpc EXCEPT ![c] = "loop"]
          /\ UNCHANGED mt_lock
       \/ /\ cpc' = [cpc EXCEPT ![c] = "thrown"]
          /\ mt_lock' = LockAfterThrow(c)
          /\ UNCHANGED pool
    /\ UNCHANGED <<run, serial, session, destroyed, crashed, dpc, tpc,
                   id, queue, envelope, nPolled, recv, cbLog>>
    /\ UNCHANGED notMux

ConsumeRegisterBeforeReply(c) ==
    /\ ~crashed
    /\ cpc[c] = "consume"
    /\ pool' = PoolPut(pool, id[c], c)
    /\ \/ /\ cpc' = [cpc EXCEPT ![c] = "loop"]
          /\ mt_lock' = Free
       \/ /\ cpc' = [cpc EXCEPT ![c] = "thrown"]
          /\ mt_lock' = LockAfterThrow(c)
    /\ UNCHANGED <<run, serial, session, destroyed, crashed, dpc, tpc,
                   id, queue, envelope, nPolled, recv, cbLog>>
    /\ UNCHANGED notMux

ConsumeRegister(c) ==
    /\ ~crashed
    /\ cpc[c] = "consume"
    /\ \/ /\ pool' = PoolPut(pool, id[c], c)
          /\ cpc' = [cpc EXCEPT ![c] = "loop"]
          /\ mt_lock' = Free
       \/ /\ cpc' = [cpc EXCEPT ![c] = "thrown"]
          /\ mt_lock' = LockAfterThrow(c)
          /\ UNCHANGED pool
    /\ UNCHANGED <<run, serial, session, destroyed, crashed, dpc, tpc,
                   id, queue, envelope, nPolled, recv, cbLog>>
    /\ UNCHANGED notMux

\* for (;;) if (!empty_envelope()) { envelope = pop_envelope(); callback(...) }
ConsumeIterationNoPop(c) ==
    /\ ~crashed
    /\ cpc[c] = "loop"
    /\ ~empty_envelope(queue[c])
    /\ cbLog' = [cbLog EXCEPT ![c] = Append(@, front_envelope(queue[c]))]
    /\ cpc' = [cpc EXCEPT ![c] = "callback"]
    /\ UNCHANGED <<run, mt_lock, pool, serial, session, destroyed, crashed, dpc,
                   tpc, id, queue, envelope, nPolled, recv>>
    /\ UNCHANGED notMux

ConsumeIteration(c) ==
    /\ ~crashed
    /\ cpc[c] = "loop"
    /\ ~empty_envelope(queue[c])
    /\ cbLog' = [cbLog EXCEPT ![c] = Append(@, front_envelope(queue[c]))]
    /\ queue' = [queue EXCEPT ![c] = pop_envelope(@)]
    /\ cpc' = [cpc EXCEPT ![c] = "callback"]
    /\ UNCHANGED <<run, mt_lock, pool, serial, session, destroyed, crashed, dpc,
                   tpc, id, envelope, nPolled, recv>>
    /\ UNCHANGED notMux

\* The callback returns and the loop goes on.
CallbackReturn(c) ==
    /\ ~crashed
    /\ cpc[c] = "callback"
    /\ cpc' = [cpc EXCEPT ![c] = "loop"]
    /\ UNCHANGED <<run, mt_lock, pool, serial, session, destroyed, crashed, dpc,
                   tpc, id, queue, envelope, nPolled, recv, cbLog>>
    /\ UNCHANGED notMux

\* The callback throws: consume is left by the exception, past the
\* pool.erase(id) that follows the loop.
CallbackThrow(c) ==
    /\ ~crashed
    /\ cpc[c] = "callback"
    /\ cpc' = [cpc EXCEPT ![c] = "idle"]
    /\ UNCHANGED <<run, mt_lock, pool, serial, session, destroyed, crashed, dpc,
                   tpc, id, queue, envelope, nPolled, recv, cbLog>>
    /\ UNCHANGED notMux

\* The callback calls ack, nack or publish on its Channel:
\* unique_lock lock(connection->mt_lock)
CallbackOpLock(c, op) ==
    /\ ~crashed
    /\ cpc[c] = "callback"
    /\ mt_lock = Free
    /\ mt_lock' = ChanThread(c)
    /\ cpc' = [cpc EXCEPT ![c] = CallbackPc[op]]
    /\ UNCHANGED <<run, pool, serial, session, destroyed, crashed, dpc, tpc,
                   id, queue, envelope, nPolled, recv, cbLog>>
    /\ UNCHANGED notMux

\* The transport call of that operation: it returns into the callback, or
\* die_on_error throws through the callback and out of consume. The scope
\* exit releases the lock either way.
CallbackOpBody(c, op) ==
    /\ ~crashed
    /\ cpc[c] = CallbackPc[op]
    /\ \/ /\ cpc' = [cpc EXCEPT ![c] = "callback"]
          /\ mt_lock' = Free
       \/ /\ cpc' = [cpc EXCEPT ![c] = "thrown"]
          /\ mt_lock' = LockAfterThrow(c)
    /\ UNCHANGED <<run, pool, serial, session, destroyed, crashed, dpc, tpc,
                   id, queue, envelope, nPolled, recv, cbLog>>
    /\ UNCHANGED notMux

\* ------------------------------------------------------------- teardown

\* Connection::~Connection: unique_lock lock(mt_lock)
TeardownLock ==
    /\ ~crashed
    /\ tpc = "live"
    /\ mt_lock = Free
    /\ mt_lock' = MainThread
    /\ tpc' = "dtor"
    /\ UNCHANGED <<run, pool, serial, session, destroyed, crashed, dpc,
                   cpc, id, queue, envelope, nPolled, recv, cbLog>>
    /\ UNCHANGED notMux

\* pool.clear(); run = false; amqp_connection_close; amqp_destroy_connection.
\* A failed close throws out of the destructor, which terminates the process.
Teardown ==
    /\ ~crashed
    /\ tpc = "dtor"
    /\ pool' = <<>>
    /\ run' = FALSE
    /\ \/ /\ session' = "closed"
          /\ destroyed' = TRUE
          /\ tpc' = "done"
          /\ mt_lock' = Free
          /\ UNCHANGED crashed
       \/ /\ crashed' = TRUE
          /\ UNCHANGED <<session, destroyed, tpc, mt_lock>>
    /\ UNCHANGED <<serial, dpc, cpc, id, queue, envelope, nPolled, recv, cbLog>>
    /\ UNCHANGED notMux


\* ======================================================= SpecIds: channel ids

Connections == 1..NumConnections

CtorThreads == 1..NumCtorThreads

NoThread == 0

\* The Connection a constructing thread was handed.
ConnOf(t) == ((t - 1) % NumConnections) + 1

\* uint16_t arithmetic of ++serial
Incr16(v) == (v + 1) % SerialModulus

IdsIdle ==
    /\ conn_lock = [c \in Connections |-> NoThread]
    /\ kpc = [t \in CtorThreads |-> "new"]
    /\ reg = [t \in CtorThreads |-> 0]
    /\ kid = [t \in CtorThreads |-> 0]

\* Channel::Channel: unique_lock lock(connection->mt_lock), the lock of the
\* thread's own Connection only.
CtorLock(t) ==
    /\ kpc[t] = "new"
    /\ conn_lock[ConnOf(t)] = NoThread
    /\ conn_lock' = [conn_lock EXCEPT ![ConnOf(t)] = t]
    /\ kpc' = [kpc EXCEPT ![t] = "load"]
    /\ UNCHANGED <<serial, reg, kid>>
    /\ UNCHANGED notIds

\* ++serial is a load, an add and a store of a static that no common lock
\* guards: the load ...
CtorLoadSerial(t) ==
    /\ kpc[t] = "load"
    /\ reg' = [reg EXCEPT ![t] = serial]
    /\ kpc' = [kpc EXCEPT ![t] = "store"]
    /\ UNCHANGED <<serial, conn_lock, kid>>
    /\ UNCHANGED notIds

\* ... and the store of the incremented value.
CtorStoreSerial(t) ==
    /\ kpc[t] = "store"
    /\ serial' = Incr16(reg[t])
    /\ kpc' = [kpc EXCEPT ![t] = "assign"]
    /\ UNCHANGED <<conn_lock, reg, kid>>
    /\ UNCHANGED notIds

\* this->id = (the value of ++serial): the value just stored, or serial read
\* again; then amqp_channel_open and die_on_amqp_error, which may throw.
CtorAssignOpen(t) ==
    /\ kpc[t] = "assign"
    /\ \E v \in {Incr16(reg[t]), serial} : kid' = [kid EXCEPT ![t] = v]
    /\ \E ok \in BOOLEAN : kpc' = [kpc EXCEPT ![t] = IF ok THEN "alive" ELSE "failed"]
    /\ conn_lock' = [conn_lock EXCEPT ![ConnOf(t)] = NoThread]
    /\ UNCHANGED <<serial, reg>>
    /\ UNCHANGED notIds

\* Channel::~Channel: lock, amqp_channel_close, unlock
IdsDtor(t) ==
    /\ kpc[t] = "alive"
    /\ conn_lock[ConnOf(t)] = NoThread
    /\ kpc' = [kpc EXCEPT ![t] = "closed"]
    /\ UNCHANGED <<serial, conn_lock, reg, kid>>
    /\ UNCHANGED notIds

IdsNext ==
    \E t \in CtorThreads :
        \/ CtorLock(t)
        \/ CtorLoadSerial(t)
        \/ CtorStoreSerial(t)
        \/ CtorAssignOpen(t)
        \/ IdsDtor(t)

\* ================================================= SpecRpc: MessageBroker::send

NUL == "nul"                \* the terminating byte of a C string

Bytes == {NUL, "a"}

CorrIds == 1..NumCorrIds

\* Byte strings of length lo..hi
ByteSeqs(lo, hi) == UNION {[1..n -> Bytes] : n \in lo..hi}

Fragments == ByteSeqs(1, MaxFragLen)

\* strlen-delimited reading of memory m: the bytes before the first NUL.
RECURSIVE CStr(_)
CStr(m) ==
    IF m = <<>> THEN <<>>
    ELSE IF Head(m) = NUL THEN <<>>
    ELSE <<Head(m)>> \o CStr(Tail(m))

MkFrame(type, mid, size, corr, frag) ==
    [type |-> type, mid |-> mid, size |-> size, corr |-> corr, frag |-> frag]

NoFrame == MkFrame("none", "", 0, 0, <<>>)

\* amqp_simple_wait_frame returning a negative result
ErrorFrame == MkFrame("error", "", 0, 0, <<>>)

\* What amqp_simple_wait_frame can hand to send.
Frames ==
    {MkFrame("method", m, 0, 0, <<>>) : m \in {"deliver", "other"}}
        \cup {MkFrame("header", "", n, c, <<>>) : n \in 0..MaxBody, c \in CorrIds}
        \cup {MkFrame("body", "", 0, 0, f) : f \in Fragments}
        \cup {MkFrame("heartbeat", "", 0, 0, <<>>)}
        \cup {ErrorFrame}

NoResponse == [json |-> <<"nullptr">>]

\* std::make_shared<Response>(json_str)
Response(json_str) == [json |-> json_str]

\* What a read of released or aliased storage may yield as a string.
GarbageStrings == {<<>>, <<"a">>}

RpcTerminal == {"returned", "thrown", "aborted", "faulted"}

RpcIdle ==
    /\ spc = "start"
    /\ wire = NoFrame
    /\ nFrames = 0
    /\ frame = NoFrame
    /\ body_target = 0
    /\ body_received = 0
    /\ response = NoResponse
    /\ frags = <<>>
    /\ hdrCorr = 0
    /\ waitFailed = FALSE
    /\ published = <<>>

\* The broker (or the socket) produces the next frame or a failure.
FrameArrives(f) ==
    /\ spc \notin RpcTerminal
    /\ wire = NoFrame
    /\ nFrames < MaxFrames
    /\ wire' = f
    /\ nFrames' = nFrames + 1
    /\ UNCHANGED <<spc, frame, body_target, body_received, response, frags,
                   hdrCorr, waitFailed, published>>
    /\ UNCHANGED notRpc

\* amqp_queue_declare of the private reply queue; die_on_amqp_error may throw,
\* amqp_bytes_malloc_dup may fail (return nullptr).
SendDeclare ==
    /\ spc = "start"
    /\ \E o \in {"declared", "thrown", "returned"} : spc' = o
    /\ UNCHANGED <<wire, nFrames, frame, body_target, body_received, response,
                   frags, hdrCorr, waitFailed, published>>
    /\ UNCHANGED notRpc

\* props.reply_to = amqp_bytes_malloc_dup(...), which may fail (return
\* nullptr); props.correlation_id = amqp_cstring_bytes("1");
\* die_on_error(amqp_basic_publish(...)), which may throw.
SendPublish ==
    /\ spc = "declared"
    /\ \/ /\ spc' = "published"
          /\ published' = Append(published, CorrelationId)
       \/ /\ \E o \in {"thrown", "returned"} : spc' = o
          /\ UNCHANGED published
    /\ UNCHANGED <<wire, nFrames, frame, body_target, body_received, response,
                   frags, hdrCorr, waitFailed>>
    /\ UNCHANGED notRpc

\* amqp_basic_consume on the reply queue
SendConsume ==
    /\ spc = "published"
    /\ \E o \in {"wait_method", "thrown"} : spc' = o
    /\ UNCHANGED <<wire, nFrames, frame, body_target, body_received, response,
                   frags, hdrCorr, waitFailed, published>>
    /\ UNCHANGED notRpc

\* frame.frame_type == AMQP_FRAME_METHOD and
\* frame.payload.method.id == AMQP_BASIC_DELIVER_METHOD
IsDeliverAnyMethod(f) == f.type = "method"

IsDeliver(f) == f.type = "method" /\ f.mid = "deliver"

\* for(;;) { amqp_simple_wait_frame; result < 0: break; not a method frame or
\* not basic.deliver: continue }
SendWaitMethod ==
    /\ spc = "wait_method"
    /\ wire # NoFrame
    /\ frame' = wire
    /\ wire' = NoFrame
    /\ IF wire = ErrorFrame
       THEN /\ waitFailed' = TRUE
            /\ spc' = "returned"
       ELSE /\ UNCHANGED waitFailed
            /\ spc' = IF IsDeliver(wire) THEN "wait_header" ELSE "wait_method"
    /\ UNCHANGED <<nFrames, body_target, body_received, response, frags, hdrCorr,
                   published>>
    /\ UNCHANGED notRpc

\* amqp_simple_wait_frame; result < 0: break; not a header frame: abort();
\* body_target = body_size; body_received = 0
SendWaitHeader ==
    /\ spc = "wait_header"
    /\ wire # NoFrame
    /\ frame' = wire
    /\ wire' = NoFrame
    /\ IF wire = ErrorFrame
       THEN /\ waitFailed' = TRUE
            /\ spc' = "returned"
            /\ UNCHANGED <<body_target, body_received, frags, hdrCorr>>
       ELSE IF wire.type # "header"
       THEN /\ spc' = "aborted"
            /\ UNCHANGED <<waitFailed, body_target, body_received, frags, hdrCorr>>
       ELSE /\ body_target' = wire.size
            /\ body_received' = 0
            /\ frags' = <<>>
            /\ hdrCorr' = wire.corr
            /\ spc' = IF 0 < wire.size THEN "wait_body" ELSE "check"
            /\ UNCHANGED waitFailed
    /\ UNCHANGED <<nFrames, response, published>>
    /\ UNCHANGED notRpc

\* while (body_received < body_target) { amqp_simple_wait_frame; result < 0:
\* break; not a body frame: abort(); body_received += len;
\* assert(body_received <= body_target) }
SendWaitBody ==
    /\ spc = "wait_body"
    /\ wire # NoFrame
    /\ frame' = wire
    /\ wire' = NoFrame
    /\ IF wire = ErrorFrame
       THEN /\ waitFailed' = TRUE
            /\ spc' = "check"
            /\ UNCHANGED <<body_received, frags>>
       ELSE IF wire.type # "body"
       THEN /\ spc' = "aborted"
            /\ UNCHANGED <<waitFailed, body_received, frags>>
       ELSE /\ body_received' = body_received + Len(wire.frag)
            /\ frags' = frags \o wire.frag
            /\ UNCHANGED waitFailed
            /\ IF body_received' > body_target
               THEN \* the assertion fails, or is compiled out (NDEBUG)
                    \E o \in {"aborted", "check"} : spc' = o
               ELSE spc' = IF body_received' < body_target THEN "wait_body" ELSE "check"
    /\ UNCHANGED <<nFrames, body_target, response, hdrCorr, published>>
    /\ UNCHANGED notRpc

\* if (body_received != body_target) break;
BodyCompleteAlways(received, target) == TRUE

BodyComplete(received, target) == received = target

\* The strings json_str can hold after strdup(frame.payload.body_fragment.bytes)
\* and json_str[len] = '\0': the fragment read as a C string when the frame is
\* a body frame; the union member of another frame is read otherwise.
JsonStrings(f) ==
    IF f.type = "body" THEN {CStr(f.frag \o <<NUL>>)} ELSE GarbageStrings

\* The copy faults: the pointer read from a frame that is no body frame is
\* not a string, and the terminator is written past a copy cut at a NUL.
CopyMayFault(f) == IF f.type = "body" THEN NUL \in {f.frag[i] : i \in DOMAIN f.frag} ELSE TRUE

\* The end of the loop body: the completeness check, then the Response is
\* built from the local frame; break; return response.
SendCheck ==
    /\ spc = "check"
    /\ IF BodyComplete(body_received, body_target)
       THEN \/ /\ \E j \in JsonStrings(frame) : response' = Response(j)
               /\ spc' = "returned"
            \/ /\ CopyMayFault(frame)
               /\ spc' = "faulted"
               /\ UNCHANGED response
       ELSE /\ spc' = "returned"
            /\ UNCHANGED response
    /\ UNCHANGED <<wire, nFrames, frame, body_target, body_received, frags,
                   hdrCorr, waitFailed, published>>
    /\ UNCHANGED notRpc

\* The caller, to whom a call has returned or thrown, calls send again on
\* the same MessageBroker: the locals of the call are new, the connection and
\* what it has buffered are as the call before left them.
SendAgain ==
    /\ spc \in {"returned", "thrown"}
    /\ Len(published) < MaxCalls
    /\ spc' = "start"
    /\ frame' = NoFrame
    /\ body_target' = 0
    /\ body_received' = 0
    /\ response' = NoResponse
    /\ frags' = <<>>
    /\ hdrCorr' = 0
    /\ waitFailed' = FALSE
    /\ UNCHANGED <<wire, nFrames, published>>
    /\ UNCHANGED notRpc

SendThread ==
    \/ SendDeclare
    \/ SendPublish
    \/ SendConsume
    \/ SendWaitMethod
    \/ SendWaitHeader
    \/ SendWaitBody
    \/ SendCheck

RpcNext ==
    \/ SendThread
    \/ SendAgain
    \/ \E f \in Frames : FrameArrives(f)

\* =============================================== SpecListen: MessageBroker::listen

QUERY_ERROR == "error"

QUERY_RESPONSE == "response"

\* MessageBroker::MESSAGE_TYPE_ERROR, the `"error"` string constant
MESSAGE_TYPE_ERROR == "error"

\* The _type of a default-constructed QueryInterface: an empty std::string
EmptyType == ""

\* An absent type tag (std::nullopt; a JSON text with no "type" member)
NoType == "nullopt"

\* The type tags a handler may leave in the response it is given.
HandlerTypes == {EmptyType, QUERY_RESPONSE, QUERY_ERROR}

\* QueryInterface::json_str(): the members "id", "type" and "body", in this
\* order, as a JSON object text.
json_str(type) == << <<"id", "0">>, <<"type", type>>, <<"body", "{}">> >>

\* json_reader_read_member(reader, name) and json_reader_get_string_value
JsonMember(json, name) ==
    IF \E i \in DOMAIN json : json[i][1] = name
    THEN json[CHOOSE i \in DOMAIN json : json[i][1] = name][2]
    ELSE NoType

\* QueryInterface(const char *json_str): the type tag of the object parsed
\* from a JSON text.
ParsedType(json) == JsonMember(json, "type")

\* Response::ok(): properties().type != MESSAGE_TYPE_ERROR, on an optional
ok(type) == IF type = NoType THEN TRUE ELSE type # MESSAGE_TYPE_ERROR

\* if (!callback(request, response)) response.set_type(QUERY_ERROR);
ResponseTypeKept(handler_ok, type) == type

ResponseType(handler_ok, type) == IF handler_ok THEN type ELSE QUERY_ERROR

\* amqp_empty_bytes
amqp_empty_bytes == <<>>

\* The requests a broker can deliver to the server: reply_to is a length-counted
\* byte string (possibly absent), not a C string.
Requests ==
    [reply_to : ByteSeqs(0, MaxReplyToLen), correlation_id : CorrIds]

NoRequest == [reply_to |-> <<>>, correlation_id |-> 0]

\* The bytes that may lie in memory behind a length-counted string, up to the
\* first NUL.
MemoryTails == {<<>>, <<"a">>}

\* amqp_cstring_bytes(p): the bytes from p up to the first NUL, whatever the
\* length the buffer was declared with.
amqp_cstring_bytes(buffer, tail) == CStr(buffer \o tail \o <<NUL>>)

ListenIdle ==
    /\ lpc = "start"
    /\ lreq = NoRequest
    /\ lok = TRUE
    /\ lresp = EmptyType
    /\ lres = "none"
    /\ nRequests = 0
    /\ handled = <<>>
    /\ replies = <<>>

\* queue_declare, amqp_bytes_malloc_dup, queue_bind, basic_consume; a throw of
\* die_on_amqp_error inside the worker thread terminates the process.
ListenSetup ==
    /\ lpc = "start"
    /\ \E o \in {"poll", "terminated", "ended"} : lpc' = o
    /\ UNCHANGED <<lreq, lok, lresp, lres, nRequests, handled, replies>>
    /\ UNCHANGED notListen

\* res = amqp_consume_message(conn, &envelope, NULL, 0) returning a delivery
ListenPoll(r) ==
    /\ lpc = "poll"
    /\ nRequests < MaxRequests
    /\ lreq' = r
    /\ nRequests' = nRequests + 1
    /\ lres' = "normal"
    /\ lpc' = "handle"
    /\ UNCHANGED <<lok, lresp, handled, replies>>
    /\ UNCHANGED notListen

\* The replies of amqp_consume_message that are not AMQP_RESPONSE_NORMAL:
\* nothing was ready for the consumer (a frame that is no delivery arrived;
\* the session is intact), or the transport has failed for good.
NonNormalResults == {"not_ready", "fatal"}

\* if (AMQP_RESPONSE_NORMAL != res.reply_type) break;
ListenPollFailed ==
    /\ lpc = "poll"
    /\ \E e \in NonNormalResults : lres' = e
    /\ lpc' = "ended"
    /\ UNCHANGED <<lreq, lok, lresp, nRequests, handled, replies>>
    /\ UNCHANGED notListen

\* props.reply_to = amqp_bytes_malloc_dup(reply_to): NULL ends the loop
\* (return 1), which an empty reply_to may also yield; then the Request is
\* built from the body, the handler runs on a default-constructed Response
\* and, if it returns false, the type tag is overwritten. set_type is a bool
\* function with no return statement, and the body handed to the Request is
\* not NUL-terminated: either may fault.
ListenHandle ==
    /\ lpc = "handle"
    /\ \/ /\ lpc' = "ended"
          /\ UNCHANGED <<lok, lresp, handled>>
       \/ \* the fault is in the Request constructor, before the handler ...
          /\ lpc' = "faulted"
          /\ UNCHANGED <<lok, lresp, handled>>
       \/ \* ... or in set_type, after it
          /\ lpc' = "faulted"
          /\ handled' = Append(handled, lreq)
          /\ UNCHANGED <<lok, lresp>>
       \/ /\ lpc' = "publish"
          /\ handled' = Append(handled, lreq)
          /\ \E handler_ok \in BOOLEAN, type \in HandlerTypes :
                /\ lok' = handler_ok
                /\ lresp' = ResponseType(handler_ok, type)
    /\ UNCHANGED <<lreq, lres, nRequests, replies>>
    /\ UNCHANGED notListen

\* The routing key handed to amqp_basic_publish.
ReplyRoutingKey(r, tail) == amqp_cstring_bytes(r.reply_to, tail)

\* die_on_error(amqp_basic_publish(conn, 1, amqp_empty_bytes,
\*     amqp_cstring_bytes(reply_to.bytes), 0, 0, &props,
\*     amqp_cstring_bytes(response.json_str())))
ListenPublish ==
    /\ lpc = "publish"
    /\ \/ \E tail \in MemoryTails :
            /\ replies' = Append(replies,
                   [request        |-> lreq,
                    exchange       |-> amqp_empty_bytes,
                    routing_key    |-> ReplyRoutingKey(lreq, tail),
                    correlation_id |-> lreq.correlation_id,
                    handler_ok     |-> lok,
                    body           |-> json_str(lresp)])
            /\ lpc' = "poll"
       \/ /\ lpc' = "terminated"
          /\ UNCHANGED replies
       \/ \* an absent reply_to has no bytes to read
          /\ lreq.reply_to = <<>>
          /\ lpc' = "faulted"
          /\ UNCHANGED replies
    /\ UNCHANGED <<lreq, lok, lresp, lres, nRequests, handled>>
    /\ UNCHANGED notListen

ListenNext ==
    \/ ListenSetup
    \/ \E r \in Requests : ListenPoll(r)
    \/ ListenPollFailed
    \/ ListenHandle
    \/ ListenPublish

\* ============================================ SpecCtor: Connection::Connection

\* The arguments a caller may pass: host and vhost possibly empty, a port
\* from -MaxPort to MaxPort, a password the broker accepts or not.
Hosts == {"", "localhost", "unreachable"}

VHosts == {"", "/"}

Ports == (0 - MaxPort)..MaxPort

Passwords == {"guest", "wrong"}

Configs == [host : Hosts, vhost : VHosts, port : Ports, password : Passwords]

NoConfig == [host |-> "", vhost |-> "", port |-> 0, password |-> ""]

CtorIdle ==
    /\ xpc = "idle"
    /\ cfg = NoConfig
    /\ conn_state = "null"
    /\ conn_socket = "null"
    /\ worker = FALSE

\* host.empty(), vhost.empty(), port <= 0
ValidConfig(k) == k.host # "" /\ k.vhost # "" /\ ~(k.port <= 0)

\* A caller constructs a Connection with arguments k.
CtorCall(k) ==
    /\ xpc = "idle"
    /\ cfg' = k
    /\ xpc' = "validate"
    /\ UNCHANGED <<conn_state, conn_socket, worker>>
    /\ UNCHANGED notCtor

\* The three checks, each throwing std::runtime_error
CtorValidate ==
    /\ xpc = "validate"
    /\ xpc' = IF ValidConfig(cfg) THEN "new" ELSE "thrown"
    /\ UNCHANGED <<cfg, conn_state, conn_socket, worker>>
    /\ UNCHANGED notCtor

\* state = amqp_new_connection(); socket = amqp_tcp_socket_new(state);
\* if (!socket) die(...)
CtorNewSocket ==
    /\ xpc = "new"
    /\ conn_state' = "allocated"
    /\ \/ /\ conn_socket' = "created"
          /\ xpc' = "open"
       \/ /\ xpc' = "thrown"
          /\ UNCHANGED conn_socket
    /\ UNCHANGED <<cfg, worker>>
    /\ UNCHANGED notCtor

\* status = amqp_socket_open(socket, host, port); if (status) die(...)
CtorSocketOpen ==
    /\ xpc = "open"
    /\ \/ /\ cfg.host # "unreachable"
          /\ conn_socket' = "open"
          /\ xpc' = "login"
       \/ /\ xpc' = "thrown"
          /\ UNCHANGED conn_socket
    /\ UNCHANGED <<cfg, conn_state, worker>>
    /\ UNCHANGED notCtor

\* die_on_amqp_error(amqp_login(...)): on a reply that is not normal the
\* constructor throws, and nothing closes the socket or destroys the state
\* (the destructor of an object whose constructor throws does not run).
CtorLogin ==
    /\ xpc = "login"
    /\ \/ /\ cfg.password = "guest"
          /\ conn_state' = "authenticated"
          /\ xpc' = "worker"
       \/ /\ xpc' = "thrown"
          /\ UNCHANGED conn_state
    /\ UNCHANGED <<cfg, conn_socket, worker>>
    /\ UNCHANGED notCtor

\* std::thread worker(...); worker.detach();
CtorStartWorker ==
    /\ xpc = "worker"
    /\ worker' = TRUE
    /\ xpc' = "done"
    /\ UNCHANGED <<cfg, conn_state, conn_socket>>
    /\ UNCHANGED notCtor

CtorNext ==
    \/ \E k \in Configs : CtorCall(k)
    \/ CtorValidate
    \/ CtorNewSocket
    \/ CtorSocketOpen
    \/ CtorLogin
    \/ CtorStartWorker

\* ============================================ SpecQueue: Channel::setup_queue

\* The strings a caller may pass: each possibly empty.
QueueNames == {"", "jobs"}

ExchangeNames == {"", "amq.direct"}

RoutingKeys == {"", "key"}

SetupQueueArgs ==
    [queue_name : QueueNames, exchange : ExchangeNames, routing_key : RoutingKeys,
     passive : BOOLEAN, durable : BOOLEAN, auto_delete : BOOLEAN, exclusive : BOOLEAN]

NoSetupQueueArgs ==
    [queue_name |-> "", exchange |-> "", routing_key |-> "",
     passive |-> FALSE, durable |-> FALSE, auto_delete |-> FALSE, exclusive |-> FALSE]

\* The name the broker gives a queue declared with an empty name.
ServerNamedQueue == "amq.gen-1"

\* r->queue of the declare-ok reply: the name asked for, or the broker's.
DeclaredQueue(name) == IF name = "" THEN ServerNamedQueue ELSE name

\* amqp_queue_declare(state, id, queue, passive, durable, exclusive,
\*                    auto_delete, amqp_empty_table)
DeclareCall(a, done) ==
    [op |-> "declare", queue |-> a.queue_name, exchange |-> "", routing_key |-> "",
     passive |-> a.passive, durable |-> a.durable, exclusive |-> a.exclusive,
     auto_delete |-> a.auto_delete, ok |-> done]

\* amqp_queue_bind(state, id, r->queue, exchange, routing_key, amqp_empty_table)
BindCall(a, done) ==
    [op |-> "bind", queue |-> DeclaredQueue(a.queue_name), exchange |-> a.exchange,
     routing_key |-> a.routing_key,
     passive |-> FALSE, durable |-> FALSE, exclusive |-> FALSE,
     auto_delete |-> FALSE, ok |-> done]

\* if (!exchange.empty() && !routing_key.empty())
BindWantedEither(a) == a.exchange # "" \/ a.routing_key # ""

BindWanted(a) == a.exchange # "" /\ a.routing_key # ""

QueueIdle ==
    /\ qpc = "idle"
    /\ qarg = NoSetupQueueArgs
    /\ qcalls = <<>>
    /\ qret = ""

\* A caller calls setup_queue with arguments a.
SetupQueueCall(a) ==
    /\ qpc = "idle"
    /\ qarg' = a
    /\ qpc' = "declare"
    /\ UNCHANGED <<qcalls, qret>>
    /\ UNCHANGED notQueue

\* amqp_queue_declare; die_on_amqp_error(amqp_get_rpc_reply(...)); the test
\* of exchange and routing_key; with no bind, the return of r->queue.
SetupQueueDeclare ==
    /\ qpc = "declare"
    /\ \E done \in BOOLEAN :
          /\ qcalls' = Append(qcalls, DeclareCall(qarg, done))
          /\ IF ~done THEN /\ qpc' = "thrown"
                         /\ UNCHANGED qret
             ELSE IF BindWanted(qarg)
                  THEN /\ qpc' = "bind"
                       /\ UNCHANGED qret
                  ELSE /\ qpc' = "returned"
                       /\ qret' = DeclaredQueue(qarg.queue_name)
    /\ UNCHANGED qarg
    /\ UNCHANGED notQueue

\* amqp_queue_bind; die_on_amqp_error(amqp_get_rpc_reply(...));
\* return std::string((char*)r->queue.bytes, r->queue.len)
SetupQueueBind ==
    /\ qpc = "bind"
    /\ \E done \in BOOLEAN :
          /\ qcalls' = Append(qcalls, BindCall(qarg, done))
          /\ IF done THEN /\ qpc' = "returned"
                        /\ qret' = DeclaredQueue(qarg.queue_name)
                   ELSE /\ qpc' = "thrown"
                        /\ UNCHANGED qret
    /\ UNCHANGED qarg
    /\ UNCHANGED notQueue

QueueNext ==
    \/ \E a \in SetupQueueArgs : SetupQueueCall(a)
    \/ SetupQueueDeclare
    \/ SetupQueueBind

\* ===================================== SpecWrap: the id counter on a long run

Slots == 1..NumSlots

\* The Connection has constructed SerialModulus - 2 Channels so far and has
\* destroyed all of them but the first, which holds the id 1.
WrapIdle ==
    /\ wserial = SerialModulus - 2
    /\ walive = [s \in Slots |-> s = 1]
    /\ wid = [s \in Slots |-> IF s = 1 THEN 1 ELSE 0]
    /\ nCreated = 0

\* Channel::Channel under the Connection's lock: id = ++serial;
\* amqp_channel_open; die_on_amqp_error, which may throw, and then no
\* Channel object comes to exist.
WrapCtor(s) ==
    /\ ~walive[s]
    /\ nCreated < MaxCreations
    /\ nCreated' = nCreated + 1
    /\ wserial' = Incr16(wserial)
    /\ wid' = [wid EXCEPT ![s] = wserial']
    /\ \E opened \in BOOLEAN : walive' = [walive EXCEPT ![s] = opened]
    /\ UNCHANGED notWrap

\* Channel::~Channel under the Connection's lock
WrapDtor(s) ==
    /\ walive[s]
    /\ walive' = [walive EXCEPT ![s] = FALSE]
    /\ UNCHANGED <<wserial, wid, nCreated>>
    /\ UNCHANGED notWrap

WrapNext ==
    \E s \in Slots :
        \/ WrapCtor(s)
        \/ WrapDtor(s)

\* ============================================================ SpecQos: Channel::qos

\* Conversion of an unsigned value to uint16_t: the low 16 bits.
Uint16(x) == x % Uint16Range

\* Conversion of an unsigned value to uint32_t: the low 32 bits, computed
\* from its two 16-bit halves.
Uint32(x) == ((x \div Uint16Range) % Uint16Range) * Uint16Range + (x % Uint16Range)

\* The arguments a caller passes to qos(uint32_t prefetch_size,
\* uint16_t prefetch_count, bool global): sizes around the 16-bit boundary
\* and at the top of the modelled range, counts at both ends of theirs.
QosArgs ==
    [prefetch_size : {0, 1, Uint16Range - 1, Uint16Range, Uint16Range + 1,
                      Uint16Range * (Uint16Range \div 2 - 1) + Uint16Range - 1},
     prefetch_count : {0, 1, Uint16Range - 1},
     global : BOOLEAN]

NoQosArgs == [prefetch_size |-> 0, prefetch_count |-> 0, global |-> FALSE]

\* The library's amqp_basic_qos(state, channel, uint32_t prefetch_size,
\* uint16_t prefetch_count, amqp_boolean_t global): the parameters it
\* receives, each argument converted to its parameter's type.
amqp_basic_qos(prefetch_size, prefetch_count, global) ==
    [prefetch_size |-> Uint32(prefetch_size),
     prefetch_count |-> Uint16(prefetch_count),
     global |-> global]

QosIdle ==
    /\ qospc = "idle"
    /\ qosarg = NoQosArgs
    /\ qossent = NoQosArgs
    /\ qoscalls = 0

\* a caller enters qos(prefetch_size, prefetch_count, global) and takes the
\* Connection's lock
QosCall(a) ==
    /\ qospc \in {"idle", "returned", "thrown"}
    /\ qoscalls < MaxQosCalls
    /\ qoscalls' = qoscalls + 1
    /\ qosarg' = a
    /\ qospc' = "send"
    /\ UNCHANGED qossent
    /\ UNCHANGED notQos

\* if (!amqp_basic_qos(connection->state, id, prefetch_count, prefetch_size,
\*                     global)): the call returns the broker's qos-ok, or
\* NULL when there was none
QosSend ==
    /\ qospc = "send"
    /\ qossent' = amqp_basic_qos(qosarg.prefetch_count, qosarg.prefetch_size,
                                 qosarg.global)
    /\ \E acked \in BOOLEAN : qospc' = IF acked THEN "returned" ELSE "failed"
    /\ UNCHANGED <<qosarg, qoscalls>>
    /\ UNCHANGED notQos

\* die_on_amqp_error(amqp_get_rpc_reply(connection->state), "basic.qos")
\* after a NULL result: the reply is not a normal one, the call throws
QosReply ==
    /\ qospc = "failed"
    /\ qospc' = "thrown"
    /\ UNCHANGED <<qosarg, qossent, qoscalls>>
    /\ UNCHANGED notQos

QosNext ==
    \/ \E a \in QosArgs : QosCall(a)
    \/ QosSend
    \/ QosReply

\* ------------------------------------------------------------------ Next
Dispatcher ==
    \/ DispCheckRun
    \/ DispLock
    \/ DispCheckPool
    \/ DispatchNotReady
    \/ DispatchFatal
    \/ DispatchAfterClose
    \/ \E k \in DeliverIds : DispatchRoute(k)

ChannelThread(c) ==
    \/ ChannelCtorLock(c)
    \/ ChannelCtor(c)
    \/ \E op \in OpNames : ChannelOpLock(c, op)
    \/ setup_queue(c)
    \/ publish(c)
    \/ qos(c)
    \/ ack(c)
    \/ nack(c)
    \/ ChannelOpCaught(c)
    \/ ConsumeLock(c)
    \/ ConsumeRegister(c)
    \/ ConsumeIteration(c)
    \/ CallbackReturn(c)
    \/ CallbackThrow(c)
    \/ \E op \in CallbackOps : CallbackOpLock(c, op)
    \/ \E op \in CallbackOps : CallbackOpBody(c, op)
    \/ ChannelDtorLock(c)
    \/ ChannelDtor(c)

MuxNext ==
    \/ Dispatcher
    \/ \E c \in Channels : ChannelThread(c)
    \/ TeardownLock
    \/ Teardown

Init == MuxInit /\ IdsIdle /\ RpcIdle /\ ListenIdle /\ CtorIdle /\ QueueIdle /\ WrapIdle /\ QosIdle

Next == MuxNext

Spec == Init /\ [][Next]_vars

SpecIds == Init /\ [][IdsNext]_vars

SpecRpc == Init /\ [][RpcNext]_vars

\* The thread that called send is scheduled fairly; nothing obliges the broker
\* to send a frame.
SpecRpcFair == SpecRpc /\ WF_vars(SendThread)

SpecFair == Spec /\ WF_vars(Dispatcher)

SpecListen == Init /\ [][ListenNext]_vars

SpecCtor == Init /\ [][CtorNext]_vars

SpecQos == Init /\ [][QosNext]_vars

SpecWrap == Init /\ [][WrapNext]_vars

SpecQueue == Init /\ [][QueueNext]_vars

\* ============================================================ properties

\* Threads that are inside a critical section calling the transport session.
ThreadsInTransport ==
    {t \in {DispThread} : dpc = "io"}
        \cup {t \in {MainThread} : tpc = "dtor"}
        \cup {ChanThread(c) : c \in {x \in Channels : cpc[x] \in CsPcs}}

\* C1: every thread that is accessing the transport session (the dispatcher's
\* buffer release and poll, a Channel's open, declare/bind, publish, consume
\* registration, qos, ack, nack and close, the Connection's teardown) holds
\* mt_lock, so no two threads access the session at once.
C1_TransportUnderLock ==
    /\ \A t \in ThreadsInTransport : mt_lock = t
    /\ Cardinality(ThreadsInTransport) <= 1

\* C1 witness: a caller is publishing under the lock while the dispatcher,
\* with a Channel registered, waits to acquire the lock for its poll.
C1_Witness ==
    /\ dpc = "lock"
    /\ ~destroyed
    /\ ~PoolEmpty(pool)
    /\ \E c \in Channels : cpc[c] = "publish"

\* C2: for every living Channel, the deliveries given to its callback followed
\* by those still in its queue are exactly the deliveries the dispatcher
\* polled for it while it was registered, in arrival order: each delivery
\* reaches the callback once, in order, none lost and none duplicated.
C2_CallbackInArrivalOrder ==
    \A c \in Channels : Alive(c) => cbLog[c] \o queue[c] = recv[c]

\* C2 witness: one Channel's callback has been given two deliveries.
C2_Witness ==
    \E c \in Channels : Alive(c) /\ Len(cbLog[c]) = 2 /\ cbLog[c] = recv[c]

\* C3: a dispatch step whose delivery carries the id of a registered living
\* Channel appends the delivery to that Channel's queue and leaves the queue
\* of every other living Channel unchanged.
C3_RoutedToRegisteredChannelOnly ==
    [][nPolled' = nPolled + 1 =>
          LET r == Registered(pool, envelope')
          IN  /\ LiveTarget(r) => queue'[r] = Append(queue[r], nPolled')
              /\ \A c \in Channels :
                    (Alive(c) /\ c # r) => queue'[c] = queue[c]]_vars

\* C3 witness: with two Channels registered, the first delivery has been
\* routed to one and the second to the other.
C3_Witness ==
    \E c, d \in Channels :
        /\ c # d
        /\ Registered(pool, id[c]) = c
        /\ Registered(pool, id[d]) = d
        /\ queue[c] = <<1>>
        /\ queue[d] = <<2>>

\* C4 (as claimed): a dispatch step whose delivery carries an id with no
\* registered Channel changes no queue and no registry entry, causes no
\* failure, and leaves the dispatcher at the start of its next iteration.
C4_UnregisteredDeliveryDropped ==
    [][(nPolled' = nPolled + 1 /\ Registered(pool, envelope') = NoChan) =>
          /\ queue' = queue
          /\ pool' = pool
          /\ ~crashed'
          /\ dpc' = "run"]_vars

\* C5 (as claimed): the ids of any two Channels that are alive at the same
\* time, on whatever Connections, are distinct.
C5_LiveIdsDistinct ==
    \A t, u \in CtorThreads :
        (t # u /\ kpc[t] = "alive" /\ kpc[u] = "alive") => kid[t] # kid[u]

\* C6 (as claimed): a Response that send returns was assembled from a reply
\* whose header carried the correlation id that send put in its request.
C6_ResponseCarriesSentCorrelationId ==
    (spc = "returned" /\ response # NoResponse) => hdrCorr = CorrelationId

\* C7 (as claimed): a call of send to which the broker never delivers a frame
\* eventually ends (by returning, or at least by failing).
C7_SendEventuallyReturns == [](nFrames = 0) => <>(spc \in RpcTerminal)

\* C8: send holds a Response only once it has returned after a header frame
\* and body frames whose lengths add up to exactly the declared body size,
\* with no failed wait; and when send returns after a failed wait (for the
\* method, the header or a body frame) or with a byte count different from
\* the declared size, it returns the empty result.
C8_ResponseOnlyOnCompleteReassembly ==
    /\ response # NoResponse =>
          /\ spc = "returned"
          /\ frame.type \in {"header", "body"}
          /\ body_received = body_target
          /\ Len(frags) = body_target
          /\ ~waitFailed
    /\ (spc = "returned" /\ (waitFailed \/ body_received # body_target)) =>
          response = NoResponse

\* C8 witness: send returned the empty result after a wait for a body frame
\* failed with part of the declared body received.
C8_Witness ==
    /\ spc = "returned"
    /\ response = NoResponse
    /\ waitFailed
    /\ 0 < body_received
    /\ body_received < body_target

\* C9 (as claimed): the body of the Response send returns is the
\* concatenation, in arrival order, of all body fragments of the delivery
\* (the empty body when the declared size is 0).
C9_ResponseBodyIsWholeBody ==
    (spc = "returned" /\ response # NoResponse) => response.json = frags

\* C10 (as claimed): every reply the server published went to the default
\* exchange, with the request's reply_to as routing key and the request's
\* correlation id.
C10_ReplyAddressedToRequester ==
    \A i \in DOMAIN replies :
        /\ replies[i].exchange = <<>>
        /\ replies[i].routing_key = replies[i].request.reply_to
        /\ replies[i].correlation_id = replies[i].request.correlation_id

C12_DispatcherExitedBeforeClose == session = "closed" => dpc = "exit"

\* C13: while the Connection exists, the dispatcher is inside the transport
\* part of an iteration (buffer release and poll) only with a non-empty
\* registry, and nothing has been polled on a Connection whose registry is
\* still empty because no Channel has registered by consume.
C13_NoPollOnEmptyRegistry ==
    /\ (dpc = "io" /\ ~destroyed) => ~PoolEmpty(pool)
    /\ (PoolEmpty(pool) /\ ~destroyed /\ ~crashed) => nPolled = 0

\* C13 witness: the dispatcher holds the lock at its registry check while a
\* Channel exists that has not called consume, so the registry is empty.
C13_Witness ==
    /\ dpc = "check"
    /\ ~destroyed
    /\ PoolEmpty(pool)
    /\ \E c \in Channels : cpc[c] = "idle"

\* C14: a Channel thread that is in the receive loop of consume (waiting on
\* its queue, popping, or running the callback) does not hold the Connection
\* lock, so the lock is free for the dispatcher and for the operations the
\* callback calls, unless another thread is inside a critical section.
C14_ConsumeLoopHoldsNoLock ==
    \A c \in Channels :
        cpc[c] \in {"loop", "callback"} => mt_lock # ChanThread(c)

\* C14 witness: one Channel's callback, given the first delivery, is
\* acknowledging under the lock, and the second delivery has been routed to
\* another registered Channel.
C14_Witness ==
    \E c, d \in Channels :
        /\ c # d
        /\ cpc[c] = "cb_ack"
        /\ mt_lock = ChanThread(c)
        /\ cbLog[c] = <<1>>
        /\ queue[d] = <<2>>

\* The positions of a Channel thread inside an operation that can fail with
\* a protocol error: declare/bind, publish, consume registration, qos, ack,
\* nack, from the caller or from the callback.
FailingOpPcs ==
    {"setup_queue", "publish", "qos", "ack", "nack", "consume",
     "cb_ack", "cb_nack", "cb_publish"}

\* C15: a step in which a Channel operation fails (its thread leaves the
\* operation by the exception) changes neither the run flag, nor the
\* registry, nor any inbound queue, nor the position of the dispatcher or of
\* any other thread, terminates nothing, and leaves the lock free.
C15_FailureSurfacedToCallerOnly ==
    [][\A c \in Channels :
          (cpc[c] \in FailingOpPcs /\ cpc'[c] = "thrown") =>
              /\ run' = run
              /\ pool' = pool
              /\ queue' = queue
              /\ dpc' = dpc
              /\ tpc' = tpc
              /\ \A d \in Channels \ {c} : cpc'[d] = cpc[d]
              /\ crashed' = crashed
              /\ mt_lock' = Free]_vars

\* C15 witness: after a Channel operation has failed, and before its caller
\* has gone on, the dispatcher has taken the lock and is polling for another
\* Channel, which is registered.
C15_Witness ==
    \E c, d \in Channels :
        /\ c # d
        /\ cpc[c] = "thrown"
        /\ Registered(pool, id[d]) = d
        /\ cpc[d] = "loop"
        /\ run
        /\ dpc = "io"
        /\ mt_lock = DispThread

\* C16 (as claimed): when the constructor has failed, no dispatcher has been
\* started, the registry is empty, no socket is left open on a session that
\* is not authenticated, and with an invalid configuration no transport
\* object has been created; when it has completed, the session is open and
\* authenticated and the dispatcher started.
C16_CtorCompletesOrLeavesNothing ==
    /\ xpc = "thrown" =>
          /\ ~worker
          /\ PoolEmpty(pool)
          /\ ~(conn_socket = "open" /\ conn_state # "authenticated")
          /\ ~ValidConfig(cfg) => (conn_state = "null" /\ conn_socket = "null")
    /\ xpc = "done" =>
          (worker /\ conn_socket = "open" /\ conn_state = "authenticated")

\* C17: a Channel enters the registry only in the step of consume that
\* follows a successful consumer registration, taken by that Channel's
\* thread while it holds the Connection lock; a consume whose registration
\* fails leaves the registry as it was; and a callback is invoked only from
\* the loop that a successful registration leads to.
C17_RegisteredOnlyByConsume ==
    [][\A c \in Channels :
          /\ (c \in InRegistry(pool') /\ c \notin InRegistry(pool)) =>
                /\ cpc[c] = "consume"
                /\ cpc'[c] = "loop"
                /\ mt_lock = ChanThread(c)
          /\ (cpc[c] = "consume" /\ cpc'[c] = "thrown") => pool' = pool
          /\ cbLog'[c] # cbLog[c] => (cpc[c] = "loop" /\ cpc'[c] = "callback")]_vars

\* C17 witness: one Channel is registered and has had its callback invoked
\* while another, whose operation failed, is not in the registry and has
\* had no callback.
C17_Witness ==
    \E c, d \in Channels :
        /\ c # d
        /\ Registered(pool, id[c]) = c
        /\ cbLog[c] # <<>>
        /\ cpc[d] = "thrown"
        /\ d \notin InRegistry(pool)
        /\ cbLog[d] = <<>>

\* C18: a poll of the dispatcher that returns without a delivery (the
\* dispatcher leaves the poll and the count of deliveries is as before)
\* routes nothing: no queue and no registry entry changes, run is as before,
\* the lock the dispatcher held is released and the dispatcher is at the
\* head of its loop for another iteration.
C18_NonNormalPollIsNothingReady ==
    [][(dpc = "io" /\ dpc' # "io" /\ nPolled' = nPolled) =>
          /\ dpc' = "run"
          /\ mt_lock = DispThread
          /\ mt_lock' = Free
          /\ queue' = queue
          /\ pool' = pool
          /\ recv' = recv
          /\ cbLog' = cbLog
          /\ run' = run
          /\ crashed' = crashed]_vars

\* C18 witness: after a poll that reported the failure of the transport the
\* dispatcher has gone round its loop and is polling again, with a Channel
\* still registered and a delivery routed earlier still in its queue.
C18_Witness ==
    /\ session = "failed"
    /\ dpc = "io"
    /\ mt_lock = DispThread
    /\ \E c \in Channels : Registered(pool, id[c]) = c /\ queue[c] # <<>>

\* C20 (as claimed): once a poll of the dispatcher has met a transport
\* failure that is final, the dispatch loop has terminated: the dispatcher
\* is at its exit and polls no more.
C20_FatalFailureEndsDispatch == session = "failed" => dpc = "exit"

\* C19 (as claimed): when the last poll of the serve loop returned a result
\* that is not normal and not fatal (nothing was ready), the loop has not
\* ended: it is still running and polls again.
C19_ServeLoopSurvivesNotReady == lres = "not_ready" => lpc # "ended"

\* C21: setup_queue issues one declare and at most one bind; once the call
\* has ended, a bind has been issued exactly when the declare succeeded and
\* exchange and routing key are both non-empty; the bind names the queue of
\* the declare reply and the caller's exchange and routing key; and a call
\* that returns, returns the queue name of the declare reply.
C21_BindIffDeclaredAndBothGiven ==
    LET binds == {i \in 1..Len(qcalls) : qcalls[i].op = "bind"}
        declared == Len(qcalls) >= 1 /\ qcalls[1].op = "declare" /\ qcalls[1].ok
    IN  /\ Cardinality(binds) <= 1
        /\ \A i \in binds :
              /\ i = 2
              /\ declared
              /\ qcalls[i].queue = DeclaredQueue(qarg.queue_name)
              /\ qcalls[i].exchange = qarg.exchange
              /\ qcalls[i].routing_key = qarg.routing_key
        /\ qpc \in {"returned", "thrown"} =>
              /\ qcalls[1].op = "declare"
              /\ qcalls[1].queue = qarg.queue_name
              /\ (binds # {}) <=>
                    (declared /\ qarg.exchange # "" /\ qarg.routing_key # "")
        /\ qpc = "returned" => qret = DeclaredQueue(qarg.queue_name)

\* C21 witness: a call with a server-named queue, an exchange and a routing
\* key has declared, bound and returned the broker's name.
C21_Witness ==
    /\ qpc = "returned"
    /\ qarg.queue_name = ""
    /\ Len(qcalls) = 2
    /\ qcalls[2].op = "bind"
    /\ qret = ServerNamedQueue

\* C22 (as claimed): the id a Channel constructor allocates is never the id
\* of a Channel that is alive on the same Connection at that moment.
C22_FreshIdNotInUse ==
    [][\A s \in Slots :
          nCreated' = nCreated + 1 /\ ~walive[s] /\ wid'[s] = wserial' =>
              \A u \in Slots : walive[u] => wid'[s] # wid[u]]_vars

\* C23 (as claimed): the correlation ids of the requests published by any
\* two calls of send are distinct.
C23_CorrelationIdsFresh ==
    \A i, j \in DOMAIN published : i # j => published[i] # published[j]

\* C24: send takes the frames of a reply in the order delivery announcement,
\* header, body. A frame taken while send waits for a delivery that is not
\* a method frame, or is a method frame of another method, leaves send
\* waiting, with no Response; send waits for the header only after a
\* delivery announcement and for the body only after a header; a frame that
\* is no header where the header is due, or no body frame in the body phase,
\* aborts the call; and a Response is built only at the completeness check,
\* which is reached from a header declaring an empty body or from the body
\* phase, so never after an abort.
C24_FramesTakenInOrder ==
    [][LET taken == wire # NoFrame /\ wire' = NoFrame /\ wire # ErrorFrame
       IN  /\ (spc = "wait_method" /\ taken
                 /\ ~(wire.type = "method" /\ wire.mid = "deliver")) =>
                 (spc' = "wait_method" /\ response' = response)
           /\ (spc' = "wait_header" /\ spc # "wait_header") =>
                 (spc = "wait_method" /\ wire.type = "method" /\ wire.mid = "deliver")
           /\ (spc' = "wait_body" /\ spc # "wait_body") =>
                 (spc = "wait_header" /\ wire.type = "header")
           /\ (spc = "wait_header" /\ taken /\ wire.type # "header") =>
                 (spc' = "aborted" /\ response' = NoResponse)
           /\ (spc = "wait_body" /\ taken /\ wire.type # "body") =>
                 (spc' = "aborted" /\ response' = NoResponse)
           /\ (spc' = "check" /\ spc # "check") =>
                 \/ spc = "wait_header" /\ wire.type = "header"
                 \/ spc = "wait_body" /\ wire.type = "body"
                 \/ spc = "wait_body" /\ wire = ErrorFrame
           /\ (response' # response /\ response' # NoResponse) => spc = "check"
           /\ spc = "aborted" => (spc' = "aborted" /\ response' = response)]_vars

\* C24 witness: the first call of send has taken four frames and returned a
\* Response whose body of one byte came in one body frame: besides the
\* delivery announcement, the header and the body frame, one frame was
\* skipped while send waited for the delivery.
C24_Witness ==
    /\ spc = "returned"
    /\ response # NoResponse
    /\ Len(published) = 1
    /\ nFrames = 4
    /\ wire = NoFrame
    /\ body_target = 1
    /\ frame.type = "body"
    /\ Len(frame.frag) = 1

\* C25 (as claimed): every delivery the serve loop has taken is handed to
\* the user handler exactly once and answered by exactly one reply,
\* published after the handler returned and before the next delivery is
\* taken; the replies are those of the requests in the order received.
C25_OneHandlerCallAndOneReplyPerDelivery ==
    /\ lpc = "handle" =>
          (Len(handled) = nRequests - 1 /\ Len(replies) = nRequests - 1)
    /\ lpc = "publish" =>
          (Len(handled) = nRequests /\ Len(replies) = nRequests - 1)
    /\ lpc \notin {"handle", "publish"} =>
          (Len(handled) = nRequests /\ Len(replies) = nRequests)
    /\ \A i \in DOMAIN replies :
          i \in DOMAIN handled /\ replies[i].request = handled[i]

\* C26 (as claimed): every Channel the registry refers to is alive and
\* inside its consume call: a Channel that has been destroyed, or whose
\* consume call was ended by a failure raised through the callback, is not
\* in the registry.
C26_RegistryRefersToConsumingChannels ==
    \A c \in InRegistry(pool) :
        cpc[c] \in {"loop", "callback", "cb_ack", "cb_nack", "cb_publish"}

\* C27 (as claimed): once the teardown of the Connection has set run to
\* false, the dispatcher, scheduled fairly, eventually leaves its loop (the
\* end of the whole process counts as leaving it).
C27_DispatcherStopsAfterTeardown == [](~run => <>(dpc = "exit" \/ crashed))

\* C28: the dispatcher holds the Connection lock only inside an iteration,
\* and an iteration is at most two of its steps: whenever the dispatcher
\* holds the lock it is at the registry check or at the poll and has a step
\* to take (the poll's wait is bounded); the check either ends the iteration
\* or leads to the poll, and every step that ends an iteration, on each
\* branch (empty registry, non-normal poll result, routed delivery),
\* releases the lock before the loop head. So between any two iterations
\* the lock is free, and a caller waiting on a fair lock gets it.
C28_DispatcherReleasesLockEveryIteration ==
    /\ []((mt_lock = DispThread /\ ~crashed) =>
            (dpc \in {"check", "io"} /\ ENABLED Dispatcher))
    /\ []((dpc \notin {"check", "io"}) => mt_lock # DispThread)
    /\ [][/\ (dpc = "check" /\ dpc' # "check") =>
                \/ dpc' = "io" /\ mt_lock' = DispThread
                \/ dpc' = "run" /\ mt_lock' = Free
          /\ (dpc = "io" /\ dpc' # "io") => (dpc' = "run" /\ mt_lock' = Free)
          /\ (dpc = "io" /\ dpc' = "io") => (crashed' \/ UNCHANGED <<mt_lock, nPolled>>)
         ]_vars

\* C28 witness: the dispatcher has ended an iteration that routed a delivery
\* and one whose poll failed, and is at the lock again, waiting, while a
\* Channel's publish holds the lock.
C28_Witness ==
    /\ dpc = "lock"
    /\ nPolled >= 1
    /\ session = "failed"
    /\ ~destroyed
    /\ \E c \in Channels : cpc[c] = "publish" /\ mt_lock = ChanThread(c)

\* C29 (as claimed): once the teardown has closed the session, the
\* dispatcher is not at its buffer release and poll, and no Channel is
\* inside a consume registration or a channel close on that session.
C29_NoTransportUseAfterClose ==
    session = "closed" =>
        /\ dpc # "io"
        /\ \A c \in Channels : cpc[c] \notin {"consume", "dtor"}

\* C30 (as claimed): during reply reassembly the accumulated body byte count
\* never exceeds the body length the header frame declared, whatever body
\* frames were received.
C30_BodyReceivedWithinTarget ==
    spc \in {"wait_body", "check", "aborted"} => body_received <= body_target

\* C31 (as claimed): after qos has issued its request, the transport has
\* received the caller's prefetch size as its prefetch size and the caller's
\* prefetch count as its prefetch count.
C31_QosPassesValuesThrough ==
    qospc \in {"returned", "failed", "thrown"} =>
        /\ qossent.prefetch_size = qosarg.prefetch_size
        /\ qossent.prefetch_count = qosarg.prefetch_count

====
